---- MODULE Spec2Model ----
(***************************************************************************)
(* Model of alert_bot.py: the JSON store, the command handlers and the     *)
(* periodic check_job.  Percentages and dollar amounts are whole numbers,  *)
(* times are epoch seconds.  A python value that may be None is a sequence *)
(* of length 0 (None) or 1 (the value).                                    *)
(***************************************************************************)
EXTENDS Integers, Sequences, FiniteSets, TLC

VARIABLES
    store,      \* contents of alerts.json: data["users"], in insertion order
    data,       \* the dict check_job loaded and works on (<<>> when no cycle runs)
    job,        \* position of check_job: pc, user index, record index, the last branch
                \* taken, the (chat, ticker) of the record it was taken for, and how often
                \* the running cycle has called fetch_snapshot per ticker, and the dollars
                \* of DCA it has suggested so far to the user it is on
    now,        \* the clock read by now_ts() and datetime.now()
    market,     \* what fetch_snapshot returns per ticker: a drop_pct or NoData
    out,        \* the message check_job is awaiting send_message for (NoMessage otherwise)
    sentBuy,    \* history: per (chat, ticker) <<time, drop_pct>> of the last BUY message,
                \* while it is younger than the cooldown (None otherwise)
    sentDca,    \* history: per (chat, ticker) whether a DCA suggestion was sent this budget week
    rerun,      \* history: "first" while a cycle runs with no command, clock step or market
                \* move since it loaded; "armed" once such a cycle has saved and nothing
                \* changed since; "running" while the next cycle runs, still unchanged
    ncmd,       \* number of commands handled so far
    dcaIn,      \* input of the parse_dca / dca_suggestion harness: the dca string
    dropIn,     \* input of the harness: the drawdown
    dcaOut      \* output of the harness: done, and Some(amount) or None

vars == <<store, data, job, now, market, out, sentBuy, sentDca,
          rerun, ncmd, dcaIn, dropIn, dcaOut>>

sysVars == <<store, data, job, now, market, out, sentBuy, sentDca,
             rerun, ncmd>>
pureVars == <<dcaIn, dropIn, dcaOut>>

----------------------------------------------------------------------------
(* Bounds *)
MaxCmds  == 2      \* commands handled in one behaviour
MaxSteps == 2      \* clock steps inside one week
MaxWeeks == 1      \* week boundaries crossed
MaxTokens == 3     \* tokens of a dca string in the harness
MaxSpent == 60     \* dollars /bought may add up to in one counter

(* Program constants *)
DefaultCooldownMin  == 360
DefaultWeeklyBudget == 70
DefaultDipBudget    == 40
TrialDays           == 7

DaySec  == 24 * 3600
WeekSec == 7 * DaySec
\* Monday 12 Jan 1970 00:00 UTC (1 Jan 1970 was a Thursday)
T0      == 4 * DaySec + WeekSec
\* granularity of the clock: half a default cooldown
StepSec == (DefaultCooldownMin * 60) \div 2

Users   == {"u1", "u2"}
\* the chats that issue commands
Chats   == {"u1"}
Tickers == {"QQQ", "NVDA"}
NoData  == -1
Drops   == {9, 10, 12}
\* the tickers whose drawdown changes; the others keep the drawdown of Init
Moving  == {"QQQ"}

None    == <<>>
Some(v) == <<v>>

Min(a, b) == IF a <= b THEN a ELSE b
Max(a, b) == IF a >= b THEN a ELSE b

----------------------------------------------------------------------------
(* Time *)

\* monday_of_week(dt).timestamp() for dt = the UTC time t
monday_of_week(t) == t - ((t - 4 * DaySec) % WeekSec)

----------------------------------------------------------------------------
(* DCA parsing *)

\* a piece of text handed to float(): ok says whether float() accepts it
Num(v)  == [ok |-> TRUE, val |-> v]
NaT     == [ok |-> FALSE, val |-> 0]
\* a whitespace separated token of a dca string: "a:b", or one without ":"
Tok(a, b) == [colon |-> TRUE, a |-> Num(a), b |-> Num(b)]
BadTok    == [colon |-> TRUE, a |-> NaT, b |-> Num(5)]
NoColon   == [colon |-> FALSE, a |-> NaT, b |-> NaT]

safe_float(x) == IF x.ok THEN Some(x.val) ELSE None

\* list.sort(key=lambda x: x[0]): stable, ascending by the first component
RECURSIVE InsertTier(_, _)
InsertTier(sorted, t) ==
    IF sorted = <<>> THEN <<t>>
    ELSE IF sorted[Len(sorted)][1] <= t[1] THEN Append(sorted, t)
    ELSE Append(InsertTier(SubSeq(sorted, 1, Len(sorted) - 1), t), sorted[Len(sorted)])

RECURSIVE SortTiers(_)
SortTiers(ts) ==
    IF ts = <<>> THEN <<>>
    ELSE InsertTier(SortTiers(SubSeq(ts, 1, Len(ts) - 1)), ts[Len(ts)])

RECURSIVE CollectTiers(_)
CollectTiers(toks) ==
    IF toks = <<>> THEN <<>>
    ELSE LET p    == toks[Len(toks)]
             rest == CollectTiers(SubSeq(toks, 1, Len(toks) - 1))
             drop == safe_float(p.a)
             amt  == safe_float(p.b)
         IN  IF ~p.colon THEN rest
             ELSE IF drop = None \/ amt = None THEN rest
             ELSE IF drop[1] <= 0 \/ amt[1] <= 0 THEN rest
             ELSE Append(rest, <<drop[1], amt[1]>>)

parse_dca(dca_str) == SortTiers(CollectTiers(dca_str))

\* variant: stop at the first tier that qualifies
RECURSIVE dca_loop_first(_, _, _)
dca_loop_first(drop_pct, tiers, amt) ==
    IF tiers = <<>> THEN amt
    ELSE IF drop_pct >= Head(tiers)[1] THEN Some(Head(tiers)[2])
    ELSE dca_loop_first(drop_pct, Tail(tiers), amt)

RECURSIVE dca_loop(_, _, _)
dca_loop(drop_pct, tiers, amt) ==
    IF tiers = <<>> THEN amt
    ELSE dca_loop(drop_pct, Tail(tiers),
                  IF drop_pct >= Head(tiers)[1] THEN Some(Head(tiers)[2]) ELSE amt)

dca_suggestion(drop_pct, tiers) == dca_loop(drop_pct, tiers, None)

----------------------------------------------------------------------------
(* Store and user records *)

NewCfg(ticker) ==
    [ticker |-> ticker, buy_drop_pct |-> 0, entry |-> 0, tp |-> 0, sl |-> 0,
     dca |-> <<>>, last_sent_ts |-> 0, last_dca_sent_week |-> 0]

NewUser(chat_id) ==
    [chat_id |-> chat_id, alerts |-> <<>>,
     cooldown_min |-> DefaultCooldownMin,
     weekly_budget |-> DefaultWeeklyBudget,
     dip_budget |-> DefaultDipBudget,
     week_state |-> [week_monday_ts |-> 0, dip_spent |-> 0, weekly_spent |-> 0],
     trial |-> [start_ts |-> 0, days |-> TrialDays],
     premium |-> [enabled |-> FALSE, until_ts |-> 0]]

\* position of chat_id in data["users"], 0 when it has no entry
UserIndex(d, chat_id) ==
    IF \E i \in 1..Len(d) : d[i].chat_id = chat_id
    THEN CHOOSE i \in 1..Len(d) : d[i].chat_id = chat_id
    ELSE 0

\* position of ticker in u["alerts"], 0 when it has no entry
CfgIndex(alerts, ticker) ==
    IF \E i \in 1..Len(alerts) : alerts[i].ticker = ticker
    THEN CHOOSE i \in 1..Len(alerts) : alerts[i].ticker = ticker
    ELSE 0

load_data == store

\* get_user: the dict with an entry for chat_id (appended with the defaults when new)
get_user(d, chat_id) ==
    IF UserIndex(d, chat_id) = 0 THEN Append(d, NewUser(chat_id)) ELSE d

\* variant: the record is written anew
replace_cfg(alerts, ticker) ==
    IF CfgIndex(alerts, ticker) = 0 THEN Append(alerts, NewCfg(ticker))
    ELSE [alerts EXCEPT ![CfgIndex(alerts, ticker)] = NewCfg(ticker)]

\* u["alerts"].setdefault(ticker, {})
setdefault_cfg(alerts, ticker) ==
    IF CfgIndex(alerts, ticker) = 0 THEN Append(alerts, NewCfg(ticker)) ELSE alerts

\* del u["alerts"][ticker]
del_cfg(alerts, ticker) ==
    LET k == CfgIndex(alerts, ticker)
    IN  SubSeq(alerts, 1, k - 1) \o SubSeq(alerts, k + 1, Len(alerts))

premium_active(u, t) ==
    IF u.premium.enabled /\ u.premium.until_ts > t THEN TRUE
    ELSE IF u.trial.start_ts <= 0 THEN FALSE
    ELSE t < u.trial.start_ts + u.trial.days * DaySec

ensure_trial(u, t) ==
    IF u.trial.start_ts <= 0 THEN [u EXCEPT !.trial.start_ts = t] ELSE u

free_limits_ok(u, t) ==
    IF premium_active(u, t) THEN TRUE
    ELSE IF Len(u.alerts) >= 2 THEN FALSE
    ELSE TRUE

\* variant: the rollover forgets the weekly counter
ensure_week_reset_dips_only(u, t) ==
    LET current_monday == monday_of_week(t)
    IN  IF u.week_state.week_monday_ts # current_monday
        THEN [u EXCEPT !.week_state.week_monday_ts = current_monday,
                       !.week_state.dip_spent = 0]
        ELSE u

ensure_week_reset(u, t) ==
    LET current_monday == monday_of_week(t)
    IN  IF u.week_state.week_monday_ts # current_monday
        THEN [u EXCEPT !.week_state =
                 [week_monday_ts |-> current_monday, dip_spent |-> 0, weekly_spent |-> 0]]
        ELSE u

----------------------------------------------------------------------------
(* Evaluation of one record, as in the body of check_job's inner loop *)

\* line 808: the record is skipped while the cooldown runs
\* variant: the cooldown never blocks
CooldownNeverBlocks(t, last_sent, cooldown_sec) == FALSE
CooldownBlocksAfterFirst(t, last_sent, cooldown_sec) ==
    t - last_sent < cooldown_sec \/ last_sent > 0
CooldownBlocks(t, last_sent, cooldown_sec) == t - last_sent < cooldown_sec

\* line 815
\* variant: the boundary is exclusive
BuyConditionStrict(buy_drop, drop_pct) == buy_drop > 0 /\ drop_pct > buy_drop
BuyCondition(buy_drop, drop_pct) == buy_drop > 0 /\ drop_pct >= buy_drop

\* line 801
RemainingDips(u) == Max(0, u.dip_budget - u.week_state.dip_spent)

\* lines 839-841
Suggested(cfg, drop_pct) ==
    LET tiers == IF cfg.dca # <<>> THEN parse_dca(cfg.dca) ELSE <<>>
    IN  IF tiers # <<>> THEN dca_suggestion(drop_pct, tiers) ELSE None

\* line 846: a DCA amount is suggested
DcaGate(u, cfg, drop_pct) ==
    /\ Suggested(cfg, drop_pct) # None
    /\ RemainingDips(u) > 0
    /\ u.week_state.week_monday_ts # cfg.last_dca_sent_week

\* line 847
\* variant: the tier amount is not capped
BuyAmtUncapped(u, cfg, drop_pct) == Suggested(cfg, drop_pct)[1]
BuyAmt(u, cfg, drop_pct) == Min(Suggested(cfg, drop_pct)[1], RemainingDips(u))

\* variant: the firing time is not recorded
FiredCfgNoStamp(u, cfg, drop_pct, t) ==
    IF DcaGate(u, cfg, drop_pct) /\ BuyAmt(u, cfg, drop_pct) > 0
    THEN [cfg EXCEPT !.last_dca_sent_week = u.week_state.week_monday_ts]
    ELSE cfg

\* lines 846-859: the record after a BUY alert fired
FiredCfg(u, cfg, drop_pct, t) ==
    LET c1 == IF DcaGate(u, cfg, drop_pct) /\ BuyAmt(u, cfg, drop_pct) > 0
              THEN [cfg EXCEPT !.last_dca_sent_week = u.week_state.week_monday_ts]
              ELSE cfg
    IN  [c1 EXCEPT !.last_sent_ts = t]

\* lines 816-864: the message handed to send_message
Message(u, cfg, drop_pct, t) ==
    [chat_id |-> u.chat_id, ticker |-> cfg.ticker, drop |-> drop_pct, at |-> t,
     threshold |-> cfg.buy_drop_pct,
     dca_amt |-> IF DcaGate(u, cfg, drop_pct) /\ BuyAmt(u, cfg, drop_pct) > 0
                 THEN Some(BuyAmt(u, cfg, drop_pct)) ELSE None,
     exhausted |-> ~DcaGate(u, cfg, drop_pct) /\ RemainingDips(u) <= 0,
     remaining |-> RemainingDips(u)]

\* lines 816-821: the only text check_job hands to send_message is the drawdown alert
KindOf(msg) == "BUY"

\* lines 160-164: the 60 day high of every ticker, and 100 times the last close of a
\* snapshot with drawdown s: drop_pct = (recent_high - price) / recent_high * 100
RecentHigh == 125
Price100(s) == RecentHigh * (100 - s)

NoMessage ==
    [chat_id |-> "", ticker |-> "", drop |-> 0, at |-> 0, threshold |-> 0,
     dca_amt |-> None, exhausted |-> FALSE, remaining |-> 0]

----------------------------------------------------------------------------
(* Histories *)

Keys == Users \X Tickers

\* a remembered BUY time h is forgotten once it is a cooldown old at time t
Recent(h, t) == IF h # None /\ t - h[1][1] < DefaultCooldownMin * 60 THEN h ELSE None

\* a handler runs from load_data to save_data without awaiting: it can start while no
\* cycle runs or while check_job awaits send_message
CanHandle == job.pc \in {"idle", "sending"} /\ ncmd < MaxCmds

\* bookkeeping common to every handled command
Handled ==
    /\ ncmd' = ncmd + 1
    /\ rerun' = "no"
    /\ UNCHANGED <<data, job, now, market, out, sentBuy, sentDca>>

----------------------------------------------------------------------------
(* Inputs of the commands *)
AddPcts     == {10, 0}
SellPairs   == {<<10, 5>>}
EntryPrices == {100, 120}
DcaA        == <<Tok(10, 15), Tok(15, 25)>>
DcaStrings  == {DcaA, <<NoColon>>}
BudgetPairs == {<<70, 0>>}
BoughtAmts  == {30}
CopyNames   == {"income", "conservative"}

----------------------------------------------------------------------------
(* Init *)

NoKey == <<"", "">>
NoFetch == [t \in Tickers |-> 0]
IdleJob(last) ==
    [pc |-> "idle", ui |-> 0, ti |-> 0, last |-> last, key |-> NoKey, fetched |-> NoFetch,
     suggested |-> 0]

PureIdle == dcaIn = <<>> /\ dropIn = 0 /\ dcaOut = [done |-> FALSE, amt |-> None]

Init ==
    /\ store = <<>>
    /\ data = <<>>
    /\ job = IdleJob("")
    /\ now = T0
    /\ market \in [Tickers -> {10}]
    /\ out = NoMessage
    /\ sentBuy = [k \in Keys |-> None]
    /\ sentDca = [k \in Keys |-> FALSE]
    /\ rerun = "no"
    /\ ncmd = 0
    /\ PureIdle

\* alerts.json as an earlier run of the bot left it: chat u1 sent /add QQQ 10,
\* /add NVDA 10, /dca QQQ 10:15 15:25 and /dca NVDA 10:15 15:25 at T0
StoredCfg(ticker) == [NewCfg(ticker) EXCEPT !.buy_drop_pct = 10, !.dca = DcaA]
StoredTwo ==
    <<[ensure_trial(NewUser("u1"), T0) EXCEPT
          !.alerts = <<StoredCfg("QQQ"), StoredCfg("NVDA")>>]>>

\* the bot starts on that file
InitStored ==
    /\ store = StoredTwo
    /\ data = <<>>
    /\ job = IdleJob("")
    /\ now = T0
    /\ market \in [Tickers -> {10}]
    /\ out = NoMessage
    /\ sentBuy = [k \in Keys |-> None]
    /\ sentDca = [k \in Keys |-> FALSE]
    /\ rerun = "no"
    /\ ncmd = 0
    /\ PureIdle

----------------------------------------------------------------------------
(* Command handlers *)

\* /add TICKER %
add(chat_id, ticker, pct) ==
    /\ CanHandle
    /\ IF pct <= 0 \/ pct > 80
       THEN /\ store' = store
            /\ Handled
       ELSE LET d  == get_user(load_data, chat_id)
                i  == UserIndex(d, chat_id)
                u  == ensure_trial(d[i], now)
            IN  IF ~free_limits_ok(u, now)
                THEN /\ store' = store
                     /\ Handled
                ELSE LET al == setdefault_cfg(u.alerts, ticker)
                         k  == CfgIndex(al, ticker)
                         u2 == [u EXCEPT !.alerts = [al EXCEPT ![k].buy_drop_pct = pct]]
                     IN  /\ store' = [d EXCEPT ![i] = u2]
                         /\ Handled
    /\ UNCHANGED pureVars

\* /setsell TICKER TP% SL%
setsell(chat_id, ticker, tp, sl) ==
    /\ CanHandle
    /\ IF tp <= 0 \/ sl <= 0
       THEN /\ store' = store
            /\ Handled
       ELSE LET d  == get_user(load_data, chat_id)
                i  == UserIndex(d, chat_id)
                u  == ensure_trial(d[i], now)
                al == setdefault_cfg(u.alerts, ticker)
                k  == CfgIndex(al, ticker)
                u2 == [u EXCEPT !.alerts = [al EXCEPT ![k].tp = tp, ![k].sl = sl]]
            IN  /\ store' = [d EXCEPT ![i] = u2]
                /\ Handled
    /\ UNCHANGED pureVars

\* /entry TICKER PRICE
entry(chat_id, ticker, price) ==
    /\ CanHandle
    /\ IF price <= 0
       THEN /\ store' = store
            /\ Handled
       ELSE LET d  == get_user(load_data, chat_id)
                i  == UserIndex(d, chat_id)
                u  == ensure_trial(d[i], now)
                al == setdefault_cfg(u.alerts, ticker)
                k  == CfgIndex(al, ticker)
                u2 == [u EXCEPT !.alerts = [al EXCEPT ![k].entry = price]]
            IN  /\ store' = [d EXCEPT ![i] = u2]
                /\ Handled
    /\ UNCHANGED pureVars

\* /dca TICKER 10:15 15:25 ...
dca(chat_id, ticker, dca_str) ==
    /\ CanHandle
    /\ IF parse_dca(dca_str) = <<>>
       THEN /\ store' = store
            /\ Handled
       ELSE LET d  == get_user(load_data, chat_id)
                i  == UserIndex(d, chat_id)
                u  == ensure_trial(d[i], now)
                al == setdefault_cfg(u.alerts, ticker)
                k  == CfgIndex(al, ticker)
                u2 == [u EXCEPT !.alerts = [al EXCEPT ![k].dca = dca_str]]
            IN  /\ store' = [d EXCEPT ![i] = u2]
                /\ Handled
    /\ UNCHANGED pureVars

\* /setbudget WEEKLY DIP
setbudget(chat_id, weekly, dip) ==
    /\ CanHandle
    /\ IF weekly <= 0 \/ dip < 0
       THEN /\ store' = store
            /\ Handled
       ELSE LET d  == get_user(load_data, chat_id)
                i  == UserIndex(d, chat_id)
                u  == ensure_trial(d[i], now)
                u2 == [u EXCEPT !.weekly_budget = weekly, !.dip_budget = dip]
                u3 == ensure_week_reset(u2, now)
            IN  /\ store' = [d EXCEPT ![i] = u3]
                /\ Handled
    /\ UNCHANGED pureVars

\* /remove TICKER
remove(chat_id, ticker) ==
    /\ CanHandle
    /\ LET d  == get_user(load_data, chat_id)
           i  == UserIndex(d, chat_id)
           u  == ensure_trial(d[i], now)
       IN  IF CfgIndex(u.alerts, ticker) # 0
           THEN /\ store' = [d EXCEPT ![i] = [u EXCEPT !.alerts = del_cfg(u.alerts, ticker)]]
                /\ Handled
           ELSE /\ store' = store
                /\ Handled
    /\ UNCHANGED pureVars

\* /start
start(chat_id) ==
    /\ CanHandle
    /\ LET d  == get_user(load_data, chat_id)
           i  == UserIndex(d, chat_id)
           u  == ensure_week_reset(ensure_trial(d[i], now), now)
       IN  /\ store' = [d EXCEPT ![i] = u]
           /\ Handled
    /\ UNCHANGED pureVars

\* /list
list_alerts(chat_id) ==
    /\ CanHandle
    /\ LET d  == get_user(load_data, chat_id)
           i  == UserIndex(d, chat_id)
           u  == ensure_week_reset(ensure_trial(d[i], now), now)
       IN  /\ store' = [d EXCEPT ![i] = u]
           /\ Handled
    /\ UNCHANGED pureVars

\* variant: a confirmation is cut down to what is left of the budget
bought_capped(chat_id, mode, amt) ==
    /\ CanHandle
    /\ mode \in {"weekly", "dips"} /\ amt > 0
    /\ LET d  == get_user(load_data, chat_id)
           i  == UserIndex(d, chat_id)
           u  == ensure_week_reset(ensure_trial(d[i], now), now)
           ws == u.week_state
       IN  IF mode = "weekly"
           THEN /\ store' = [d EXCEPT ![i] = [u EXCEPT !.week_state.weekly_spent =
                                Min(u.weekly_budget, ws.weekly_spent + amt)]]
                /\ Handled
           ELSE /\ store' = [d EXCEPT ![i] = [u EXCEPT !.week_state.dip_spent =
                                Min(u.dip_budget, ws.dip_spent + amt)]]
                /\ Handled
    /\ UNCHANGED pureVars

\* /bought weekly|dips TICKER AMT, /bought reset
bought(chat_id, mode, amt) ==
    /\ CanHandle
    /\ LET d  == get_user(load_data, chat_id)
           i  == UserIndex(d, chat_id)
           u  == ensure_week_reset(ensure_trial(d[i], now), now)
           ws == u.week_state
       IN  IF mode = "reset"
           THEN /\ store' = [d EXCEPT ![i] =
                        [u EXCEPT !.week_state.weekly_spent = 0, !.week_state.dip_spent = 0]]
                /\ Handled
           ELSE IF mode \notin {"weekly", "dips"} \/ amt <= 0
           THEN /\ store' = store
                /\ Handled
           ELSE IF mode = "weekly"
           THEN /\ ws.weekly_spent + amt <= MaxSpent
                /\ store' = [d EXCEPT ![i] =
                        [u EXCEPT !.week_state.weekly_spent = ws.weekly_spent + amt]]
                /\ Handled
           ELSE /\ ws.dip_spent + amt <= MaxSpent
                /\ store' = [d EXCEPT ![i] =
                        [u EXCEPT !.week_state.dip_spent = ws.dip_spent + amt]]
                /\ Handled
    /\ UNCHANGED pureVars

\* the record /copy writes for QQQ
CopyCfg(name) ==
    IF name = "income"
    THEN [ticker |-> "QQQ", buy_drop_pct |-> 12, entry |-> 0, tp |-> 10, sl |-> 7,
          dca |-> <<Tok(12, 20)>>, last_sent_ts |-> 0, last_dca_sent_week |-> 0]
    ELSE [ticker |-> "QQQ", buy_drop_pct |-> 12, entry |-> 0, tp |-> 8, sl |-> 6,
          dca |-> <<Tok(12, 20), Tok(18, 20)>>, last_sent_ts |-> 0, last_dca_sent_week |-> 0]

\* /copy income | conservative (any other name here is "not valid")
copy_strategy(chat_id, name) ==
    /\ CanHandle
    /\ LET d  == get_user(load_data, chat_id)
           i  == UserIndex(d, chat_id)
           u  == ensure_trial(d[i], now)
       IN  IF ~premium_active(u, now) \/ name \notin {"income", "conservative"}
           THEN /\ store' = store
                /\ Handled
           ELSE LET u2 == [u EXCEPT !.alerts = <<CopyCfg(name)>>,
                                    !.weekly_budget = 70, !.dip_budget = 40]
                IN  /\ store' = [d EXCEPT ![i] = ensure_week_reset(u2, now)]
                    /\ Handled
    /\ UNCHANGED pureVars

----------------------------------------------------------------------------
(* check_job *)

\* the cursor after the record at (ui, ti): next record, or the next user
Advance(j, d) ==
    IF j.ti < Len(d[j.ui].alerts)
    THEN [j EXCEPT !.ti = j.ti + 1]
    ELSE [j EXCEPT !.ui = j.ui + 1, !.ti = 0]

\* line 901: run_repeating(check_job, interval=5 * 60, first=15) with the job queue's
\* defaults: a tick runs check_job unless the run of an earlier tick has not returned
\* variant: every tick runs check_job
RunsCheckJobAlways(pc) == TRUE
RunsCheckJob(pc) == pc = "idle"

\* line 788: data = load_data()
CheckJobLoad ==
    /\ RunsCheckJob(job.pc)
    /\ data' = load_data
    /\ job' = [pc |-> "loop", ui |-> 1, ti |-> 0, last |-> "", key |-> NoKey,
                fetched |-> NoFetch, suggested |-> 0]
    /\ rerun' = IF rerun = "armed" THEN "running" ELSE "first"
    /\ UNCHANGED <<store, now, market, out, sentBuy, sentDca, ncmd>>
    /\ UNCHANGED pureVars

\* a tick of the driver while check_job is between its load and its return
TickSkipped ==
    /\ job.pc # "idle" /\ job.last # "tick"
    /\ ~RunsCheckJob(job.pc)
    /\ job' = [job EXCEPT !.last = "tick"]
    /\ UNCHANGED <<store, data, now, market, out, sentBuy, sentDca, rerun, ncmd>>
    /\ UNCHANGED pureVars

\* lines 790-795: enter the next user
CheckJobUser ==
    /\ job.pc = "loop" /\ job.ti = 0 /\ job.ui <= Len(data)
    /\ LET u == ensure_week_reset(data[job.ui], now)
       IN  /\ data' = [data EXCEPT ![job.ui] = u]
           /\ job' = IF u.alerts = <<>>
                     THEN [job EXCEPT !.ui = job.ui + 1, !.last = "empty", !.key = NoKey,
                                      !.suggested = 0]
                     ELSE [job EXCEPT !.ti = 1, !.last = "user", !.key = NoKey,
                                      !.suggested = 0]
    /\ UNCHANGED <<store, now, market, out, sentBuy, sentDca, rerun, ncmd>>
    /\ UNCHANGED pureVars

\* line 811: one more call of fetch_snapshot(ticker)
Fetch(j, ticker) == [j EXCEPT !.fetched[ticker] = @ + 1]

\* line 812: `if not s`
\* variant: a missing snapshot is read as a drawdown of 100
NoSnapshotIgnored(s) == FALSE
NoSnapshot(s) == s = NoData

\* s.drop_pct of the snapshot fetch_snapshot returned
DropOf(s) == IF s = NoData THEN 100 ELSE s

\* lines 803-861: one record, up to the await of send_message
CheckJobRecord ==
    /\ job.pc = "loop" /\ job.ti >= 1
    /\ LET u   == data[job.ui]
           cfg == u.alerts[job.ti]
           key == <<u.chat_id, cfg.ticker>>
           s   == market[cfg.ticker]
       IN  IF CooldownBlocks(now, cfg.last_sent_ts, u.cooldown_min * 60)
           THEN /\ job' = [Advance(job, data) EXCEPT !.last = "cooldown", !.key = key]
                /\ UNCHANGED <<data, out, sentBuy, sentDca>>
           ELSE IF NoSnapshot(s)
           THEN /\ job' = [Fetch(Advance(job, data), cfg.ticker)
                               EXCEPT !.last = "nodata", !.key = key]
                /\ UNCHANGED <<data, out, sentBuy, sentDca>>
           ELSE IF ~BuyCondition(cfg.buy_drop_pct, DropOf(s))
           THEN /\ job' = [Fetch(Advance(job, data), cfg.ticker)
                               EXCEPT !.last = "below", !.key = key]
                /\ UNCHANGED <<data, out, sentBuy, sentDca>>
           ELSE LET msg == Message(u, cfg, DropOf(s), now)
                IN  /\ data' = [data EXCEPT ![job.ui].alerts[job.ti] =
                                    FiredCfg(u, cfg, DropOf(s), now)]
                    /\ out' = msg
                    /\ job' = [Fetch(job, cfg.ticker)
                                   EXCEPT !.pc = "sending", !.last = "fired", !.key = key,
                                          !.suggested = IF msg.dca_amt # None
                                                        THEN @ + msg.dca_amt[1] ELSE @]
                    /\ sentBuy' = [sentBuy EXCEPT ![key] = Some(<<now, DropOf(s)>>)]
                    /\ sentDca' = IF msg.dca_amt # None
                                  THEN [sentDca EXCEPT ![key] = TRUE]
                                  ELSE sentDca
    /\ UNCHANGED <<store, now, market, rerun, ncmd>>
    /\ UNCHANGED pureVars

\* lines 861-864: send_message returned
SendOk ==
    /\ job.pc = "sending"
    /\ job' = [Advance(job, data) EXCEPT !.pc = "loop", !.last = "sent"]
    /\ out' = NoMessage
    /\ UNCHANGED <<store, data, now, market, sentBuy, sentDca, rerun, ncmd>>
    /\ UNCHANGED pureVars

\* lines 861-864: send_message raised; nothing in check_job catches it
SendFail ==
    /\ job.pc = "sending"
    /\ job' = IdleJob("failed")
    /\ data' = <<>>
    /\ out' = NoMessage
    /\ rerun' = "no"
    /\ UNCHANGED <<store, now, market, sentBuy, sentDca, ncmd>>
    /\ UNCHANGED pureVars

\* line 811: fetch_snapshot raised (the provider's request failed); nothing in
\* check_job catches it
FetchRaises ==
    /\ job.pc = "loop" /\ job.ti >= 1
    /\ LET u   == data[job.ui]
           cfg == u.alerts[job.ti]
       IN  ~CooldownBlocks(now, cfg.last_sent_ts, u.cooldown_min * 60)
    /\ job' = IdleJob("raised")
    /\ data' = <<>>
    /\ rerun' = "no"
    /\ UNCHANGED <<store, now, market, out, sentBuy, sentDca, ncmd>>
    /\ UNCHANGED pureVars

\* line 866: save_data(data)
CheckJobSave ==
    /\ job.pc = "loop" /\ job.ti = 0 /\ job.ui > Len(data)
    /\ store' = data
    /\ data' = <<>>
    /\ job' = IdleJob("saved")
    /\ rerun' = IF rerun \in {"first", "running"} THEN "armed" ELSE "no"
    /\ UNCHANGED <<now, market, out, sentBuy, sentDca, ncmd>>
    /\ UNCHANGED pureVars

----------------------------------------------------------------------------
(* Environment *)

\* the clock moves on by one step inside the week
AdvanceTime ==
    /\ now + StepSec <= monday_of_week(now) + MaxSteps * StepSec
    /\ now' = now + StepSec
    /\ sentBuy' = [k \in Keys |-> Recent(sentBuy[k], now')]
    /\ rerun' = "no"
    /\ UNCHANGED <<store, data, job, market, out, sentDca, ncmd>>
    /\ UNCHANGED pureVars

\* the clock moves on to the next Monday 00:00 UTC
NextWeek ==
    /\ monday_of_week(now) + WeekSec <= T0 + MaxWeeks * WeekSec
    /\ now' = monday_of_week(now) + WeekSec
    /\ sentBuy' = [k \in Keys |-> Recent(sentBuy[k], now')]
    /\ sentDca' = [k \in Keys |-> FALSE]
    /\ rerun' = "no"
    /\ UNCHANGED <<store, data, job, market, out, ncmd>>
    /\ UNCHANGED pureVars

\* the price history of a ticker changes
MarketMove(ticker, s) ==
    /\ market[ticker] # s
    /\ market' = [market EXCEPT ![ticker] = s]
    /\ rerun' = "no"
    /\ UNCHANGED <<store, data, job, now, out, sentBuy, sentDca, ncmd>>
    /\ UNCHANGED pureVars

----------------------------------------------------------------------------
Next ==
    \/ \E c \in Chats, t \in Tickers, p \in AddPcts : add(c, t, p)
    \/ \E c \in Chats, t \in Tickers, d \in DcaStrings : dca(c, t, d)
    \/ \E c \in Chats, p \in BudgetPairs : setbudget(c, p[1], p[2])
    \/ \E c \in Chats, t \in Tickers : remove(c, t)
    \/ \E c \in Chats, m \in {"dips", "reset"}, a \in BoughtAmts : bought(c, m, a)
    \/ \E c \in Chats, n \in CopyNames : copy_strategy(c, n)
    \/ CheckJobLoad
    \/ CheckJobUser
    \/ CheckJobRecord
    \/ SendOk
    \/ SendFail
    \/ CheckJobSave
    \/ AdvanceTime
    \/ \E t \in Moving, s \in Drops \cup {NoData} : MarketMove(t, s)

Spec == Init /\ [][Next]_vars

----------------------------------------------------------------------------
(* The budget week: confirmations, reports and cycles across a week boundary *)

BoughtModes == {"weekly", "dips", "reset", "status"}

NextWeekly ==
    \/ \E c \in Chats : add(c, "QQQ", 10)
    \/ \E c \in Chats, p \in BudgetPairs : setbudget(c, p[1], p[2])
    \/ \E c \in Chats, m \in BoughtModes, a \in BoughtAmts \cup {0} : bought(c, m, a)
    \/ \E c \in Chats : start(c)
    \/ \E c \in Chats : list_alerts(c)
    \/ CheckJobLoad
    \/ CheckJobUser
    \/ CheckJobRecord
    \/ SendOk
    \/ SendFail
    \/ CheckJobSave
    \/ AdvanceTime
    \/ NextWeek

SpecWeekly == Init /\ [][NextWeekly]_vars

----------------------------------------------------------------------------
(* Harness for parse_dca and dca_suggestion: lines 839-841 applied to any dca string *)

TokenSet   == {Tok(10, 15), Tok(15, 25), Tok(20, 40), Tok(10, 30), Tok(0, 5), Tok(12, 0),
               BadTok, NoColon}
DropInputs == {5, 10, 17, 20, 25}

RECURSIVE SeqsUpTo(_, _)
SeqsUpTo(S, n) ==
    IF n = 0 THEN {<<>>}
    ELSE LET shorter == SeqsUpTo(S, n - 1)
         IN  shorter \cup {Append(q, x) : q \in shorter, x \in S}

InitDca ==
    /\ store = <<>> /\ data = <<>> /\ job = IdleJob("") /\ now = T0
    /\ market = [t \in Tickers |-> 10] /\ out = NoMessage
    /\ sentBuy = [k \in Keys |-> None] /\ sentDca = [k \in Keys |-> FALSE]
    /\ rerun = "no" /\ ncmd = 0
    /\ dcaIn \in SeqsUpTo(TokenSet, MaxTokens)
    /\ dropIn \in DropInputs
    /\ dcaOut = [done |-> FALSE, amt |-> None]

SuggestStep ==
    /\ ~dcaOut.done
    /\ dcaOut' = [done |-> TRUE,
                  amt |-> Suggested([NewCfg("QQQ") EXCEPT !.dca = dcaIn], dropIn)]
    /\ UNCHANGED <<dcaIn, dropIn>>
    /\ UNCHANGED sysVars

NextDca == SuggestStep

SpecDca == InitDca /\ [][NextDca]_vars

----------------------------------------------------------------------------
(* Properties *)

\* the step is check_job evaluating the record under its cursor
IsRecordStep == job.pc = "loop" /\ job.ti >= 1 /\ job' # job
CurUser == data[job.ui]
CurCfg  == data[job.ui].alerts[job.ti]
CurKey  == <<CurUser.chat_id, CurCfg.ticker>>
\* the evaluation hands a BUY message to send_message
Emits   == job'.pc = "sending"

\* C1: a record with a buy threshold t, an available snapshot with drawdown d and an
\* admitting cooldown fires a BUY message iff d >= t.
C1_BuyFiresIffDrawdownReachesThreshold ==
    [][(/\ IsRecordStep
        /\ CurCfg.buy_drop_pct > 0
        /\ market[CurCfg.ticker] # NoData
        /\ now - CurCfg.last_sent_ts >= CurUser.cooldown_min * 60)
       => (Emits <=> market[CurCfg.ticker] >= CurCfg.buy_drop_pct)]_vars

\* a BUY message is in flight for a drawdown exactly at the threshold
C1_FiredAtBoundary ==
    job.pc = "sending" /\ out.threshold > 0 /\ out.drop = out.threshold

\* C2: two BUY messages for the same (chat, ticker) are at least a cooldown apart: no BUY
\* message is emitted for a key whose last BUY message is younger than the cooldown.
C2_BuyMessagesCooldownApart ==
    [][(IsRecordStep /\ Emits) => sentBuy[CurKey] = None]_vars

\* C3: while a message is handed to delivery, the firing decision it reports is already
\* in the store.
C3_PersistedBeforeDelivery ==
    job.pc = "sending" =>
        LET i == UserIndex(store, out.chat_id)
        IN  /\ i # 0
            /\ CfgIndex(store[i].alerts, out.ticker) # 0
            /\ store[i].alerts[CfgIndex(store[i].alerts, out.ticker)].last_sent_ts = out.at

\* C4: a cycle only ends after every record of every user was evaluated, and it ends by
\* writing the decisions it made to the store; a failed delivery does not change that.
C4_CycleEndsEvaluatedAndSaved ==
    [][(job.pc # "idle" /\ job'.pc = "idle")
       => (job.pc = "loop" /\ job.ui > Len(data) /\ store' = data)]_vars

\* what the commands configure, without the bookkeeping check_job writes
CfgConfig(cfg) ==
    [ticker |-> cfg.ticker, buy_drop_pct |-> cfg.buy_drop_pct, entry |-> cfg.entry,
     tp |-> cfg.tp, sl |-> cfg.sl, dca |-> cfg.dca]
UserConfig(u, t) ==
    [chat_id |-> u.chat_id, weekly_budget |-> u.weekly_budget, dip_budget |-> u.dip_budget,
     spent |-> IF u.week_state.week_monday_ts = monday_of_week(t)
               THEN <<u.week_state.weekly_spent, u.week_state.dip_spent>>
               ELSE <<0, 0>>,
     alerts |-> [k \in 1..Len(u.alerts) |-> CfgConfig(u.alerts[k])]]
Config(d, t) == [i \in 1..Len(d) |-> UserConfig(d[i], t)]

\* C5: the save that ends a cycle keeps what the commands wrote since the cycle loaded the
\* store: it changes none of the configured values.
C5_CycleSaveKeepsCommands ==
    [][(job.pc = "loop" /\ job'.pc = "idle") => Config(store', now) = Config(store, now)]_vars

C7_RerunEmitsNothing ==
    rerun = "running" =>
        /\ job.pc # "sending"
        /\ Len(data) = Len(store)
        /\ \A i \in 1..Len(data) : data[i].alerts = store[i].alerts

\* the rerun skipped a record whose BUY message the preceding cycle sent
C7_RerunSkippedFiredRecord ==
    /\ rerun = "running"
    /\ job.last = "cooldown"
    /\ sentBuy[job.key] # None
    /\ sentBuy[job.key][1][1] = now

\* the (drawdown, amount) pairs a dca string holds: tokens "a:b" with numbers a, b > 0
TierSet(dca_str) ==
    {<<dca_str[i].a.val, dca_str[i].b.val>> : i \in
        {j \in 1..Len(dca_str) : /\ dca_str[j].colon
                                 /\ dca_str[j].a.ok /\ dca_str[j].b.ok
                                 /\ dca_str[j].a.val > 0 /\ dca_str[j].b.val > 0}}

C9_SuggestionCappedByRemainingBudget ==
    [][(IsRecordStep /\ Emits /\ parse_dca(CurCfg.dca) # <<>>)
       => LET rem  == CurUser.dip_budget - CurUser.week_state.dip_spent
              tier == dca_suggestion(market[CurCfg.ticker], parse_dca(CurCfg.dca))
              open == CurUser.week_state.week_monday_ts # CurCfg.last_dca_sent_week
              new  == data'[job.ui].alerts[job.ti]
          IN  IF rem > 0
              THEN /\ ~out'.exhausted
                   /\ out'.dca_amt # None <=> (tier # None /\ open)
                   /\ out'.dca_amt # None =>
                        out'.dca_amt[1] = (IF tier[1] <= rem THEN tier[1] ELSE rem)
              ELSE /\ out'.dca_amt = None
                   /\ out'.exhausted
                   /\ new.last_dca_sent_week = CurCfg.last_dca_sent_week]_vars

\* a BUY message is in flight whose suggestion was cut down to the remaining budget
C9_SuggestionCapped ==
    /\ job.pc = "sending"
    /\ out.dca_amt # None
    /\ out.dca_amt[1] = out.remaining
    /\ LET cfg == data[job.ui].alerts[job.ti]
       IN  dca_suggestion(out.drop, parse_dca(cfg.dca))[1] > out.remaining

\* C10: inside one budget week at most one DCA suggestion is emitted per (chat, ticker).
C10_OneDcaSuggestionPerWeek ==
    [][(IsRecordStep /\ Emits /\ out'.dca_amt # None) => ~sentDca[CurKey]]_vars

----------------------------------------------------------------------------
(* Sell rules: /entry and /setsell, and the cycles that follow *)

NextSell ==
    \/ \E c \in Chats, p \in AddPcts : add(c, "QQQ", p)
    \/ \E c \in Chats, p \in SellPairs \cup {<<0, 5>>} : setsell(c, "QQQ", p[1], p[2])
    \/ \E c \in Chats, e \in EntryPrices \cup {0} : entry(c, "QQQ", e)
    \/ CheckJobLoad
    \/ CheckJobUser
    \/ CheckJobRecord
    \/ SendOk
    \/ SendFail
    \/ CheckJobSave
    \/ AdvanceTime
    \/ \E t \in Moving, s \in Drops \cup {NoData} : MarketMove(t, s)

SpecSell == Init /\ [][NextSell]_vars

----------------------------------------------------------------------------
(* Cycles over the records of two accounts, with a provider that can fail *)

NextCycle ==
    \/ \E c \in Users, t \in Tickers : add(c, t, 10)
    \/ CheckJobLoad
    \/ TickSkipped
    \/ CheckJobUser
    \/ CheckJobRecord
    \/ FetchRaises
    \/ SendOk
    \/ SendFail
    \/ CheckJobSave
    \/ AdvanceTime

SpecCycle == Init /\ [][NextCycle]_vars

----------------------------------------------------------------------------
(* Configuration of existing records: the bot starts on a store with two records *)

ConfigPcts    == {12, 0, 90}
ConfigDca     == {<<Tok(12, 20)>>, <<Tok(10, 15), BadTok>>, <<NoColon>>}

NextConfig ==
    \/ \E c \in Chats, p \in ConfigPcts : add(c, "QQQ", p)
    \/ \E c \in Chats, p \in SellPairs \cup {<<0, 5>>} : setsell(c, "QQQ", p[1], p[2])
    \/ \E c \in Chats, e \in {100, 0} : entry(c, "QQQ", e)
    \/ \E c \in Chats, d \in ConfigDca : dca(c, "QQQ", d)
    \/ \E c \in Chats, a \in BoughtAmts \cup {0} : bought(c, "dips", a)
    \/ CheckJobLoad
    \/ CheckJobUser
    \/ CheckJobRecord
    \/ SendOk
    \/ SendFail
    \/ CheckJobSave
    \/ AdvanceTime

SpecConfig == InitStored /\ [][NextConfig]_vars

----------------------------------------------------------------------------
(* The free limit: an account with two tickers whose trial runs out *)

FreeTickers == Tickers \cup {"MSFT"}

NextFree ==
    \/ \E c \in Chats, t \in FreeTickers : add(c, t, 12)
    \/ \E c \in Chats, t \in FreeTickers : setsell(c, t, 10, 5)
    \/ \E c \in Chats, t \in FreeTickers : entry(c, t, 100)
    \/ \E c \in Chats, t \in FreeTickers : dca(c, t, <<Tok(12, 20)>>)
    \/ \E c \in Chats, t \in FreeTickers : remove(c, t)
    \/ AdvanceTime
    \/ NextWeek

SpecFree == InitStored /\ [][NextFree]_vars

----------------------------------------------------------------------------
(* Periodic cycles while the drawdowns stay at or above the thresholds, the provider
   answers and the deliveries succeed *)

DeepDrops == {s \in Drops : \A t \in Tickers : s >= StoredCfg(t).buy_drop_pct}

NextLive ==
    \/ CheckJobLoad
    \/ CheckJobUser
    \/ CheckJobRecord
    \/ SendOk
    \/ CheckJobSave
    \/ AdvanceTime
    \/ \E t \in Moving, s \in DeepDrops : MarketMove(t, s)

\* the next step of check_job: its start at a tick of run_repeating, or the step its
\* cursor is on once it was started
CheckJobStep ==
    CheckJobLoad \/ CheckJobUser \/ CheckJobRecord \/ SendOk \/ CheckJobSave

\* run_repeating starts check_job at every tick, and a started check_job runs on: its
\* next step, once it can be taken, is taken
FairLive == WF_vars(CheckJobStep)

SpecLive == InitStored /\ [][NextLive]_vars /\ FairLive

----------------------------------------------------------------------------
(* Properties of the budget week *)

\* the step is check_job entering the user under its cursor
IsUserStep == job.pc = "loop" /\ job.ti = 0 /\ job.ui <= Len(data) /\ job' # job

\* the stored account of a chat (the defaults of get_user when it has none)
Account(d, c) == IF UserIndex(d, c) # 0 THEN d[UserIndex(d, c)] ELSE NewUser(c)

\* C11: the rollover check, run in a week other than the stored one, zeroes both spent
\* counters, stores the current Monday and leaves the caps and the records alone; run in
\* the stored week it changes nothing.
C11_RolloverResetsCountersOnly ==
    [][IsUserStep =>
        LET u == data[job.ui]
            r == data'[job.ui]
            m == monday_of_week(now)
        IN  /\ Len(data') = Len(data)
            /\ \A k \in 1..Len(data) : k # job.ui => data'[k] = data[k]
            /\ IF u.week_state.week_monday_ts # m
               THEN /\ r.week_state.week_monday_ts = m
                    /\ r.week_state.dip_spent = 0
                    /\ r.week_state.weekly_spent = 0
                    /\ r.weekly_budget = u.weekly_budget
                    /\ r.dip_budget = u.dip_budget
                    /\ r.alerts = u.alerts
               ELSE r = u]_vars

\* a cycle has just rolled over an account that had spent in an earlier week
C11_RolledOverSpentWeek ==
    /\ job.pc = "loop" /\ job.last \in {"user", "empty"}
    /\ LET k   == IF job.last = "user" THEN job.ui ELSE job.ui - 1
           old == Account(store, data[k].chat_id).week_state
       IN  /\ data[k].week_state =
                 [week_monday_ts |-> monday_of_week(now), dip_spent |-> 0, weekly_spent |-> 0]
           /\ old.week_monday_ts \notin {0, monday_of_week(now)}
           /\ old.weekly_spent > 0
           /\ old.dip_spent > 0

\* C12: as long as the stored week start of an account stays the same, neither of its
\* spent counters decreases.
C12_SpentCountersNeverDecrease ==
    [][\A c \in Users :
        (/\ UserIndex(store, c) # 0
         /\ UserIndex(store', c) # 0
         /\ Account(store', c).week_state.week_monday_ts =
               Account(store, c).week_state.week_monday_ts)
        => /\ Account(store', c).week_state.weekly_spent >=
                Account(store, c).week_state.weekly_spent
           /\ Account(store', c).week_state.dip_spent >=
                Account(store, c).week_state.dip_spent]_vars

\* C13 as stated: /bought weekly|dips with AMT > 0, for an account whose budget week has
\* started, adds AMT to the named counter and leaves the other counter, the caps, the week
\* start and the records as they were stored.
C13_ConfirmationAddsToNamedCounterOnly ==
    [][\A c \in Chats, m \in {"weekly", "dips"}, a \in BoughtAmts :
        (bought(c, m, a) /\ Account(store, c).week_state.week_monday_ts # 0) =>
            LET pre  == Account(store, c)
                post == Account(store', c)
            IN  /\ post.week_state.weekly_spent =
                     pre.week_state.weekly_spent + (IF m = "weekly" THEN a ELSE 0)
                /\ post.week_state.dip_spent =
                     pre.week_state.dip_spent + (IF m = "dips" THEN a ELSE 0)
                /\ post.week_state.week_monday_ts = pre.week_state.week_monday_ts
                /\ post.weekly_budget = pre.weekly_budget
                /\ post.dip_budget = pre.dip_budget
                /\ post.alerts = pre.alerts]_vars

\* C13 amended: the confirmation counts from the counters of the current week (the stored
\* ones when the stored week start is the current Monday, zero otherwise): it adds AMT to
\* the named one, uncapped, leaves the other, stores the current Monday, and leaves the
\* caps and the records as they were.
C13_ConfirmationAddsAfterRollover ==
    [][\A c \in Chats, m \in {"weekly", "dips"}, a \in BoughtAmts :
        bought(c, m, a) =>
            LET pre  == Account(store, c)
                post == Account(store', c)
                cur  == pre.week_state.week_monday_ts = monday_of_week(now)
                w0   == IF cur THEN pre.week_state.weekly_spent ELSE 0
                d0   == IF cur THEN pre.week_state.dip_spent ELSE 0
            IN  /\ UserIndex(store', c) # 0
                /\ post.week_state.weekly_spent = w0 + (IF m = "weekly" THEN a ELSE 0)
                /\ post.week_state.dip_spent = d0 + (IF m = "dips" THEN a ELSE 0)
                /\ post.week_state.week_monday_ts = monday_of_week(now)
                /\ post.weekly_budget = pre.weekly_budget
                /\ post.dip_budget = pre.dip_budget
                /\ post.alerts = pre.alerts]_vars

\* confirmations have taken the dip counter above a positive dip budget
C13_SpentAboveBudget ==
    \E i \in 1..Len(store) :
        /\ store[i].dip_budget > 0
        /\ store[i].week_state.dip_spent > store[i].dip_budget

\* C14: an operation that reads, reports or writes the spent counters of an account works
\* on the counters of the current week: a cycle entering a user, /bought, /list and /start
\* leave a week state that carries the current Monday, and a BUY message, which reports
\* the remaining dip budget, is built from a week state that carries the current Monday.
C14_CountersAreOfCurrentWeek ==
    [][/\ IsUserStep => data'[job.ui].week_state.week_monday_ts = monday_of_week(now)
       /\ \A c \in Chats :
            ((\E m \in {"weekly", "dips", "reset"}, a \in BoughtAmts : bought(c, m, a))
                \/ start(c) \/ list_alerts(c)) =>
            Account(store', c).week_state.week_monday_ts = monday_of_week(now)
       /\ (IsRecordStep /\ Emits) =>
            CurUser.week_state.week_monday_ts = monday_of_week(now)]_vars

----------------------------------------------------------------------------
(* Properties of the sell rules *)

\* the record's cooldown admits a message
CooldownAdmits == now - CurCfg.last_sent_ts >= CurUser.cooldown_min * 60

\* C15: a record with an entry price and a take-profit percentage, evaluated with an
\* available snapshot whose price is at or above entry * (1 + tp/100) while the cooldown
\* admits, emits a take-profit message.
C15_TakeProfitFires ==
    [][(/\ IsRecordStep
        /\ CurCfg.entry > 0 /\ CurCfg.tp > 0
        /\ market[CurCfg.ticker] # NoData
        /\ Price100(market[CurCfg.ticker]) >= CurCfg.entry * (100 + CurCfg.tp)
        /\ CooldownAdmits)
       => (Emits /\ KindOf(out') = "TP")]_vars

\* C16: a record with an entry price and a stop-loss percentage, evaluated with an
\* available snapshot, emits a stop-loss message iff the price is at or below
\* entry * (1 - sl/100) and the cooldown admits.
C16_StopLossFiresIffAtOrBelowTarget ==
    [][(/\ IsRecordStep
        /\ CurCfg.entry > 0 /\ CurCfg.sl > 0
        /\ market[CurCfg.ticker] # NoData)
       => ((Emits /\ KindOf(out') = "SL")
             <=> (/\ Price100(market[CurCfg.ticker]) <= CurCfg.entry * (100 - CurCfg.sl)
                  /\ CooldownAdmits))]_vars

----------------------------------------------------------------------------
(* Properties of the cycle *)

\* C17: in one cycle fetch_snapshot is called at most once per ticker, however many
\* records (of the same or of different accounts) name it.
C17_OneFetchPerTickerPerCycle ==
    \A t \in Tickers : job.fetched[t] <= 1

\* j is the cursor of check_job after the record it is on now
AfterRecord(j, d) ==
    IF job.ti < Len(d[job.ui].alerts)
    THEN j.pc = "loop" /\ j.ui = job.ui /\ j.ti = job.ti + 1
    ELSE j.pc = "loop" /\ j.ui = job.ui + 1 /\ j.ti = 0

\* C18: a record whose ticker has no usable data is skipped: no message, the records and
\* the pending message as they were, and check_job moves on to the next record.
C18_NoDataSkipsRecordOnly ==
    [][(IsRecordStep /\ market[CurCfg.ticker] = NoData)
       => (/\ ~Emits
           /\ data' = data
           /\ out' = out
           /\ store' = store
           /\ AfterRecord(job', data))]_vars

\* check_job skipped a record with a buy threshold for lack of data and is on the next
\* record of the same account
C18_SkippedAndWentOn ==
    /\ job.pc = "loop" /\ job.last = "nodata" /\ job.ti = 2
    /\ data[job.ui].alerts[1].buy_drop_pct > 0
    /\ market[data[job.ui].alerts[1].ticker] = NoData
    /\ data[job.ui].alerts[1].last_sent_ts = 0

\* C19: when fetch_snapshot raises for a record, check_job goes on with the next record
\* and keeps what the cycle decided so far, to be saved when it ends.
C19_FetchErrorIsolated ==
    [][(IsRecordStep /\ job'.last = "raised")
       => (data' = data /\ AfterRecord(job', data))]_vars

\* C20: a cycle starts (the store is loaded and the cursor set to the first user) only
\* when no cycle is in progress.
C20_NoCycleStartsDuringCycle ==
    [][(/\ job' # job
        /\ job'.pc = "loop" /\ job'.ui = 1 /\ job'.ti = 0 /\ job'.last = "")
       => job.pc = "idle"]_vars

\* a tick arrived while check_job awaited send_message and started nothing
C20_TickSkippedWhileSending ==
    job.pc = "sending" /\ job.last = "tick" /\ data # <<>>

----------------------------------------------------------------------------
(* Properties of the configuration commands *)

CfgFields == {"ticker", "buy_drop_pct", "entry", "tp", "sl", "dca",
              "last_sent_ts", "last_dca_sent_week"}

\* from store to store' the account of chat c changed at most the fields F of its record
\* for ticker t: same records in the same order, same budget state, other accounts as
\* they were
OnlyFieldsChanged(c, t, F) ==
    LET pre  == Account(store, c)
        post == Account(store', c)
    IN  /\ Len(store') = Len(store)
        /\ \A i \in 1..Len(store) : store[i].chat_id # c => store'[i] = store[i]
        /\ post.weekly_budget = pre.weekly_budget
        /\ post.dip_budget = pre.dip_budget
        /\ post.week_state = pre.week_state
        /\ Len(post.alerts) = Len(pre.alerts)
        /\ \A k \in 1..Len(pre.alerts) :
              IF pre.alerts[k].ticker = t
              THEN \A f \in CfgFields \ F : post.alerts[k][f] = pre.alerts[k][f]
              ELSE post.alerts[k] = pre.alerts[k]

\* C21: /add, /setsell, /entry and /dca for a ticker the account has a record for change
\* at most the buy threshold, tp and sl, the entry price, the dca string of that record,
\* and nothing else of the account or the store.
C21_ConfigCommandsChangeNamedFieldsOnly ==
    [][\A c \in Chats, t \in Tickers :
        CfgIndex(Account(store, c).alerts, t) # 0 =>
          /\ (\E p \in ConfigPcts : add(c, t, p))
                => OnlyFieldsChanged(c, t, {"buy_drop_pct"})
          /\ (\E p \in SellPairs \cup {<<0, 5>>} : setsell(c, t, p[1], p[2]))
                => OnlyFieldsChanged(c, t, {"tp", "sl"})
          /\ (\E e \in {100, 0} : entry(c, t, e))
                => OnlyFieldsChanged(c, t, {"entry"})
          /\ (\E d \in ConfigDca : dca(c, t, d))
                => OnlyFieldsChanged(c, t, {"dca"})]_vars

\* the store holds a record that fired and was given sell rules afterwards, next to a
\* second record
C21_SellRulesSetOnFiredRecord ==
    \E i \in 1..Len(store) :
        /\ Len(store[i].alerts) = 2
        /\ store[i].alerts[1].last_sent_ts > 0
        /\ store[i].alerts[1].last_dca_sent_week > 0
        /\ store[i].alerts[1].tp > 0
        /\ store[i].alerts[2].last_sent_ts > 0

\* a token "a:b" of a dca string with numbers a > 0 and b > 0
WellFormedTok(p) ==
    p.colon /\ p.a.ok /\ p.b.ok /\ p.a.val > 0 /\ p.b.val > 0

\* C22: whatever commands were handled, the store holds no malformed value: every token
\* of every stored dca string is a well-formed tier, every set buy threshold is in
\* (0, 100], every set entry price, tp and sl is > 0 and no counter is negative.
C22_NoMalformedValueStored ==
    \A i \in 1..Len(store) :
        /\ store[i].week_state.weekly_spent >= 0
        /\ store[i].week_state.dip_spent >= 0
        /\ \A k \in 1..Len(store[i].alerts) :
              LET cfg == store[i].alerts[k]
              IN  /\ cfg.buy_drop_pct >= 0 /\ cfg.buy_drop_pct <= 100
                  /\ cfg.entry >= 0 /\ cfg.tp >= 0 /\ cfg.sl >= 0
                  /\ \A j \in 1..Len(cfg.dca) : WellFormedTok(cfg.dca[j])

----------------------------------------------------------------------------
(* Properties of the tier list *)

\* C23: the tier list parsed from a dca string that /dca accepts has positive drawdown
\* keys in strictly ascending order (ascending and pairwise distinct).
C23_TierKeysPositiveDistinctAscending ==
    (dcaOut.done /\ parse_dca(dcaIn) # <<>>) =>
        LET tiers == parse_dca(dcaIn)
        IN  /\ \A i \in 1..Len(tiers) : tiers[i][1] > 0
            /\ \A i \in 1..Len(tiers), j \in 1..Len(tiers) :
                  i < j => tiers[i][1] < tiers[j][1]

----------------------------------------------------------------------------
(* Properties of the free limit *)

TickersOf(u) == {u.alerts[k].ticker : k \in 1..Len(u.alerts)}

\* C24: an account with neither premium nor a running trial that holds 2 or more tickers
\* gains no ticker by any step.
C24_FreeAccountGainsNoTicker ==
    [][\A c \in Chats :
        (/\ UserIndex(store, c) # 0
         /\ ~premium_active(Account(store, c), now)
         /\ Len(Account(store, c).alerts) >= 2)
        => TickersOf(Account(store', c)) \subseteq TickersOf(Account(store, c))]_vars

----------------------------------------------------------------------------
(* Properties of the suggestions of one cycle *)

\* C25: the DCA amounts one cycle suggests to one account, summed over its records, stay
\* within the dip budget the account had left when the cycle loaded the store.
C25_CycleSuggestionsWithinRemaining ==
    [][(IsRecordStep /\ Emits) => job'.suggested <= RemainingDips(CurUser)]_vars

----------------------------------------------------------------------------
(* Progress of the BUY messages *)

\* between two cycles, the stored record of key k has a buy threshold that the drawdown
\* of its ticker reaches, and its cooldown has run out
BuyDue(k) ==
    /\ job.pc = "idle"
    /\ UserIndex(store, k[1]) # 0
    /\ CfgIndex(Account(store, k[1]).alerts, k[2]) # 0
    /\ LET u   == Account(store, k[1])
           cfg == u.alerts[CfgIndex(u.alerts, k[2])]
       IN  /\ cfg.buy_drop_pct > 0
           /\ market[k[2]] # NoData
           /\ market[k[2]] >= cfg.buy_drop_pct
           /\ now - cfg.last_sent_ts >= u.cooldown_min * 60

\* a BUY message for key k is handed to send_message
BuyInFlight(k) ==
    job.pc = "sending" /\ KindOf(out) = "BUY" /\ <<out.chat_id, out.ticker>> = k

\* C26: with drawdowns staying at or above the thresholds, snapshots available,
\* deliveries succeeding and fair ticks, a record whose threshold is reached and whose
\* cooldown has run out (never fired, or fired at least a cooldown ago) is eventually
\* followed by a BUY message for it.
C26_DueBuyEventuallyEmitted ==
    \A k \in Chats \X Tickers : BuyDue(k) ~> BuyInFlight(k)

\* a BUY message is in flight for a record whose earlier BUY message is stored and is
\* a cooldown old
C26_BuyAgainAfterCooldown ==
    /\ job.pc = "sending"
    /\ KindOf(out) = "BUY"
    /\ LET u   == Account(store, out.chat_id)
           cfg == u.alerts[CfgIndex(u.alerts, out.ticker)]
       IN  /\ cfg.last_sent_ts > 0
           /\ out.at >= cfg.last_sent_ts + u.cooldown_min * 60

====
